---- MODULE Spec2Model ----
(***************************************************************************)
(* State-machine model of the search engine (SearchServer) and of its      *)
(* request log (RequestQueue).                                             *)
(*                                                                         *)
(* A text is a sequence of character codes.  A double relevance or term    *)
(* frequency is an exact fraction [num, den] whose numerator is counted in *)
(* millionths of a natural logarithm; the comparator's epsilon             *)
(* (std::numeric_limits<double>::epsilon()) is far below that resolution,  *)
(* so "closer than epsilon" is equality of the fractions.                  *)
(***************************************************************************)
EXTENDS Integers, Sequences, FiniteSets, TLC

VARIABLES
    stop_words_,               \* std::set<std::string>
    word_to_document_freqs_,   \* word -> (document id -> term frequency)
    documents_,                \* document id -> [rating, status]
    document_ids,              \* ids in insertion order
    requests_,                 \* std::deque<QueryResult>
    no_results_requests_,      \* int
    current_time_,             \* uint64_t
    last,                      \* the most recent call and what it returned
    added,                     \* history: number of AddDocument calls that returned
    history                    \* history: results_num of every AddRequest, by tick

server == <<stop_words_, word_to_document_freqs_, documents_, document_ids>>
log    == <<requests_, no_results_requests_, current_time_>>
vars   == <<stop_words_, word_to_document_freqs_, documents_, document_ids,
            requests_, no_results_requests_, current_time_, last, added, history>>

(***************************************************************************)
(* Texts used as inputs.                                                   *)
(***************************************************************************)
cat   == <<99, 97, 116>>
dog   == <<100, 111, 103>>
mouse == <<109, 111, 117, 115, 101>>
in    == <<105, 110>>
sp    == <<32>>
tab   == <<9>>
soh   == <<1>>
dash  == <<45>>

Statuses == {"ACTUAL", "IRRELEVANT", "BANNED", "REMOVED"}

(***************************************************************************)
(* string_processing                                                       *)
(***************************************************************************)
\* std::isspace in the "C" locale, which operator>> uses to delimit words
IsSpace(c) == c \in {32, 9, 10, 11, 12, 13}

RECURSIVE SplitFrom(_, _, _, _)
SplitFrom(text, i, word, words) ==
    IF i > Len(text)
    THEN IF word = <<>> THEN words ELSE Append(words, word)
    ELSE IF IsSpace(text[i])
         THEN SplitFrom(text, i + 1, <<>>,
                        IF word = <<>> THEN words ELSE Append(words, word))
         ELSE SplitFrom(text, i + 1, Append(word, text[i]), words)

SplitIntoWords(text) == SplitFrom(text, 1, <<>>, <<>>)

MakeUniqueNonEmptyStrings(strings) ==
    {strings[i] : i \in {j \in 1..Len(strings) : strings[j] # <<>>}}

\* std::string operator< (lexicographic on character codes)
RECURSIVE StrLess(_, _)
StrLess(a, b) ==
    IF b = <<>> THEN FALSE
    ELSE IF a = <<>> THEN TRUE
    ELSE IF a[1] # b[1] THEN a[1] < b[1]
    ELSE StrLess(Tail(a), Tail(b))

\* iteration order of a std::set<std::string>
RECURSIVE SetOrder(_)
SetOrder(S) ==
    IF S = {} THEN <<>>
    ELSE LET m == CHOOSE x \in S : \A y \in S \ {x} : StrLess(x, y)
         IN <<m>> \o SetOrder(S \ {m})

\* iteration order of the keys of a std::map<int, ...>
RECURSIVE IdOrder(_)
IdOrder(S) ==
    IF S = {} THEN <<>>
    ELSE LET m == CHOOSE x \in S : \A y \in S : x <= y
         IN <<m>> \o IdOrder(S \ {m})

(***************************************************************************)
(* SearchServer: helpers                                                   *)
(***************************************************************************)
IsValidWord(word) ==
    \A i \in 1..Len(word) : ~(word[i] >= 0 /\ word[i] < 32)

\* IsStopWord that never finds the word
IsStopWordNever(word) == FALSE

IsStopWord(word) == word \in stop_words_

SplitIntoWordsNoStop(text) ==
    LET all == SplitIntoWords(text) IN
    IF \E i \in 1..Len(all) : ~IsValidWord(all[i])
    THEN [err |-> "InvalidText", words |-> <<>>]
    ELSE [err |-> "none", words |-> SelectSeq(all, LAMBDA w : ~IsStopWord(w))]

\* int is 32 bits wide
INT_MAX == 2147483647
INT_MIN == -INT_MAX - 1

\* whether the sum a + b of two ints leaves the range of int
AddOverflows(a, b) ==
    \/ b > 0 /\ a > INT_MAX - b
    \/ b < 0 /\ a < INT_MIN - b

\* a + b modulo 2^32, every intermediate value kept inside the range of int
WrapAdd(a, b) ==
    IF b > 0 /\ a > INT_MAX - b THEN (((a - INT_MAX) - 1) + b) - INT_MAX - 1
    ELSE IF b < 0 /\ a < INT_MIN - b THEN (((a + INT_MAX) + 1) + b) + INT_MAX + 1
    ELSE a + b

\* std::accumulate(first, last, init) with an int accumulator, as a build
\* whose signed addition wraps computes it
RECURSIVE Accumulate(_, _)
Accumulate(s, init) ==
    IF s = <<>> THEN init ELSE Accumulate(Tail(s), WrapAdd(init, s[1]))

\* whether one of the additions of std::accumulate overflows, which is
\* undefined behaviour
RECURSIVE SignedOverflow(_, _)
SignedOverflow(s, init) ==
    /\ s # <<>>
    /\ \/ AddOverflows(init, s[1])
       \/ SignedOverflow(Tail(s), WrapAdd(init, s[1]))

\* C++ integer division truncates toward zero; b is positive
TruncDiv(a, b) == IF a >= 0 THEN a \div b ELSE (a + b - 1) \div b

ComputeAverageRating(ratings) ==
    IF ratings = <<>> THEN 0 ELSE TruncDiv(Accumulate(ratings, 0), Len(ratings))

\* ParseQueryWord without the test for an empty or doubly dashed word
ParseQueryWordLax(text0) ==
    LET is_minus == text0[1] = 45
        text     == IF is_minus THEN Tail(text0) ELSE text0
    IN  IF ~IsValidWord(text)
        THEN [err |-> "InvalidText"]
        ELSE [err |-> "none", data |-> text, is_minus |-> is_minus,
              is_stop |-> IsStopWord(text)]

ParseQueryWord(text0) ==
    LET is_minus == text0[1] = 45
        text     == IF is_minus THEN Tail(text0) ELSE text0
    IN  IF ~IsValidWord(text)
        THEN [err |-> "InvalidText"]
        ELSE IF text = <<>> \/ text[1] = 45
        THEN [err |-> "InvalidMinusWord"]
        ELSE [err |-> "none", data |-> text, is_minus |-> is_minus,
              is_stop |-> IsStopWord(text)]

RECURSIVE ParseQueryFrom(_, _, _)
ParseQueryFrom(words, i, query) ==
    IF i > Len(words) THEN query
    ELSE LET query_word == ParseQueryWord(words[i]) IN
         IF query_word.err # "none"
         THEN [err |-> query_word.err, plus_words |-> {}, minus_words |-> {}]
         ELSE IF query_word.is_stop
         THEN ParseQueryFrom(words, i + 1, query)
         ELSE IF query_word.is_minus
         THEN ParseQueryFrom(words, i + 1,
                  [query EXCEPT !.minus_words = @ \cup {query_word.data}])
         ELSE ParseQueryFrom(words, i + 1,
                  [query EXCEPT !.plus_words = @ \cup {query_word.data}])

ParseQuery(text) ==
    ParseQueryFrom(SplitIntoWords(text), 1,
                   [err |-> "none", plus_words |-> {}, minus_words |-> {}])

GetDocumentCount == Cardinality(DOMAIN documents_)


(***************************************************************************)
(* Relevance arithmetic: exact fractions over millionths of ln             *)
(***************************************************************************)
Zero == [num |-> 0, den |-> 1]

RECURSIVE GCD(_, _)
GCD(a, b) == IF b = 0 THEN a ELSE GCD(b, a % b)

\* fractions are kept in lowest terms
Rat(n, d) ==
    LET g == GCD(IF n < 0 THEN -n ELSE n, d) IN [num |-> n \div g, den |-> d \div g]

RatAdd(a, b) == Rat(a.num * b.den + b.num * a.den, a.den * b.den)
RatScale(a, k) == Rat(a.num * k, a.den)
RatLess(a, b) == a.num * b.den < b.num * a.den
RatEq(a, b) == a.num * b.den = b.num * a.den

\* std::log of 1..8, in millionths
LnMicro == <<0, 693147, 1098612, 1386294, 1609438, 1791759, 1945910, 2079442>>

\* the idf smoothed by one extra document
SmoothedInverseDocumentFreq(word) ==
    LnMicro[GetDocumentCount + 1]
        - LnMicro[Cardinality(DOMAIN word_to_document_freqs_[word])]

ComputeWordInverseDocumentFreq(word) ==
    LnMicro[GetDocumentCount]
        - LnMicro[Cardinality(DOMAIN word_to_document_freqs_[word])]

\* the caller's predicate over (document_id, status, rating)
DocPredicate(predict, document_id, status, rating) ==
    CASE predict \in Statuses        -> status = predict
      [] predict = "even_id"         -> document_id % 2 = 0
      [] predict = "rating_positive" -> rating > 0

(***************************************************************************)
(* SearchServer::FindAllDocuments                                          *)
(***************************************************************************)
\* inner loop over one posting list; acc.calls records where doc_pred was called
RECURSIVE AccumulateWord(_, _, _, _, _)
AccumulateWord(ids, word, inverse_document_freq, doc_pred, acc) ==
    IF ids = <<>> THEN acc
    ELSE LET document_id   == Head(ids)
             term_freq     == word_to_document_freqs_[word][document_id]
             document_info == documents_[document_id]
             old == IF document_id \in DOMAIN acc.rel
                    THEN acc.rel[document_id] ELSE Zero
         IN  AccumulateWord(Tail(ids), word, inverse_document_freq, doc_pred,
                 [rel   |-> IF DocPredicate(doc_pred, document_id,
                                            document_info.status, document_info.rating)
                            THEN (document_id :>
                                    RatAdd(old, RatScale(term_freq, inverse_document_freq)))
                                 @@ acc.rel
                            ELSE acc.rel,
                  calls |-> acc.calls \cup {document_id}])

RECURSIVE AccumulatePlus(_, _, _)
AccumulatePlus(words, doc_pred, acc) ==
    IF words = <<>> THEN acc
    ELSE LET word == Head(words) IN
         IF word \notin DOMAIN word_to_document_freqs_
         THEN AccumulatePlus(Tail(words), doc_pred, acc)
         ELSE AccumulatePlus(Tail(words), doc_pred,
                  AccumulateWord(IdOrder(DOMAIN word_to_document_freqs_[word]), word,
                                 ComputeWordInverseDocumentFreq(word), doc_pred, acc))

\* EraseMinus with the minus-word loop left out
EraseMinusNothing(words, rel) == rel

RECURSIVE EraseMinus(_, _)
EraseMinus(words, rel) ==
    IF words = <<>> THEN rel
    ELSE LET word == Head(words) IN
         IF word \notin DOMAIN word_to_document_freqs_
         THEN EraseMinus(Tail(words), rel)
         ELSE EraseMinus(Tail(words),
                  [id \in DOMAIN rel \ DOMAIN word_to_document_freqs_[word] |-> rel[id]])

FindAllDocuments(query, doc_pred) ==
    LET acc == AccumulatePlus(SetOrder(query.plus_words), doc_pred,
                              [rel |-> <<>>, calls |-> {}])
        document_to_relevance == EraseMinus(SetOrder(query.minus_words), acc.rel)
        order == IdOrder(DOMAIN document_to_relevance)
    IN  [docs  |-> [i \in 1..Len(order) |->
                       [id        |-> order[i],
                        relevance |-> document_to_relevance[order[i]],
                        rating    |-> documents_[order[i]].rating]],
         calls |-> acc.calls]

(***************************************************************************)
(* SearchServer::FindTopDocuments                                          *)
(***************************************************************************)
MAX_RESULT_DOCUMENT_COUNT == 5

\* Comp without the tie-break on the rating
CompRelevanceOnly(lhs, rhs) == RatLess(rhs.relevance, lhs.relevance)

\* the comparator handed to std::sort
Comp(lhs, rhs) ==
    IF RatEq(lhs.relevance, rhs.relevance)
    THEN lhs.rating > rhs.rating
    ELSE RatLess(rhs.relevance, lhs.relevance)

\* std::sort: every arrangement in which no element precedes one that the
\* comparator puts before it (the order of equivalent elements is unspecified)
RECURSIVE SortOutcomes(_)
SortOutcomes(S) ==
    IF S = {} THEN {<<>>}
    ELSE UNION {{<<d>> \o t : t \in SortOutcomes(S \ {d})} :
                d \in {x \in S : \A y \in S : ~Comp(y, x)}}

Resize(docs) ==
    IF Len(docs) > MAX_RESULT_DOCUMENT_COUNT
    THEN SubSeq(docs, 1, MAX_RESULT_DOCUMENT_COUNT)
    ELSE docs

\* the set of results the call can produce
FindTopOutcomes(raw_query, predict) ==
    IF ~IsValidWord(raw_query)
    THEN {[err |-> "InvalidText", docs |-> <<>>, calls |-> {}]}
    ELSE LET query == ParseQuery(raw_query) IN
         IF query.err # "none"
         THEN {[err |-> query.err, docs |-> <<>>, calls |-> {}]}
         ELSE LET matched_documents == FindAllDocuments(query, predict) IN
              {[err |-> "none", docs |-> Resize(sorted), calls |-> matched_documents.calls] :
                  sorted \in SortOutcomes({matched_documents.docs[i] :
                                              i \in 1..Len(matched_documents.docs)})}

(***************************************************************************)
(* SearchServer::MatchDocument                                             *)
(***************************************************************************)
InDocument(word, document_id) ==
    /\ word \in DOMAIN word_to_document_freqs_
    /\ document_id \in DOMAIN word_to_document_freqs_[word]

\* the first loop: the plus-words found in the document, in set order
MatchedPlusWords(query, document_id) ==
    SelectSeq(SetOrder(query.plus_words), LAMBDA word : InDocument(word, document_id))

\* MinusWordHit with the second loop left out
MinusWordHitNever(query, document_id) == FALSE

\* the second loop: a minus-word found in the document clears the list
MinusWordHit(query, document_id) ==
    \E word \in query.minus_words : InDocument(word, document_id)

MatchOutcome(raw_query, document_id) ==
    IF ~IsValidWord(raw_query)
    THEN [err |-> "InvalidText", words |-> <<>>, status |-> "-"]
    ELSE LET query == ParseQuery(raw_query) IN
         IF query.err # "none"
         THEN [err |-> query.err, words |-> <<>>, status |-> "-"]
         ELSE IF document_id \notin DOMAIN documents_
         THEN [err |-> "UnknownDocument", words |-> <<>>, status |-> "-"]
         ELSE [err |-> "none",
               words |-> IF MinusWordHit(query, document_id)
                         THEN <<>> ELSE MatchedPlusWords(query, document_id),
               status |-> documents_[document_id].status]

(***************************************************************************)
(* Bounds and inputs                                                       *)
(***************************************************************************)
MaxId == 1
DocIds == -1..MaxId

\* the documents offered to AddDocument: (text, status, ratings)
Documents ==
    {[text |-> cat \o sp \o dog,                 status |-> "ACTUAL", ratings |-> <<5>>],
     [text |-> cat \o sp \o cat \o sp \o mouse,  status |-> "ACTUAL", ratings |-> <<5>>],
     [text |-> in \o sp \o dog,                  status |-> "BANNED", ratings |-> <<-1, -2>>],
     [text |-> cat \o tab \o dog,                status |-> "ACTUAL", ratings |-> <<5>>],
     [text |-> cat \o sp \o soh \o dog,          status |-> "ACTUAL", ratings |-> <<5>>]}
DocStatuses == {"ACTUAL", "BANNED"}

Queries == {cat,
            cat \o sp \o dash \o dog,
            in \o sp \o dash \o dog,
            dash,
            cat \o sp \o dash \o dash \o dog,
            soh \o sp \o dash \o dash \o dog,
            cat \o tab \o dog}
MatchQueries == {cat \o sp \o dash \o dog,
                 in \o sp \o mouse \o sp \o cat,
                 dash,
                 cat \o tab \o dog}
Predicates == {"even_id"}

StopWordTexts == {<<>>, in}

NoCall == [op |-> "none", id |-> 0, text |-> <<>>, pred |-> "-", err |-> "none",
           docs |-> <<>>, words |-> <<>>, status |-> "-", value |-> 0, calls |-> {},
           ratings |-> <<>>]

(***************************************************************************)
(* Construction                                                            *)
(***************************************************************************)
\* SearchServer(stop_words_text) followed by RequestQueue(search_server)
Construct(stop_words_text) ==
    /\ \A w \in MakeUniqueNonEmptyStrings(SplitIntoWords(stop_words_text)) : IsValidWord(w)
    /\ stop_words_ = MakeUniqueNonEmptyStrings(SplitIntoWords(stop_words_text))
    /\ word_to_document_freqs_ = <<>>
    /\ documents_ = <<>>
    /\ document_ids = <<>>
    /\ requests_ = <<>>
    /\ no_results_requests_ = 0
    /\ current_time_ = 0
    /\ last = NoCall
    /\ added = 0
    /\ history = <<>>

Init == \E stop_words_text \in StopWordTexts : Construct(stop_words_text)

(***************************************************************************)
(* SearchServer operations                                                 *)
(***************************************************************************)
Count(word, words) == Cardinality({i \in 1..Len(words) : words[i] = word})

\* word_to_document_freqs_[word][document_id] += inv_word_count, for every word
AddPostings(document_id, words) ==
    LET present == {words[i] : i \in 1..Len(words)}
        Old(word) == IF word \in DOMAIN word_to_document_freqs_
                     THEN word_to_document_freqs_[word] ELSE <<>>
        OldFreq(word) == IF document_id \in DOMAIN Old(word)
                         THEN Old(word)[document_id] ELSE Zero
    IN  [word \in DOMAIN word_to_document_freqs_ \cup present |->
            IF word \in present
            THEN (document_id :> RatAdd(OldFreq(word), Rat(Count(word, words), Len(words))))
                 @@ Old(word)
            ELSE word_to_document_freqs_[word]]

\* IdRejected without the test for an id already present
IdRejectedNegativeOnly(document_id) == document_id < 0

\* IdRejected without the test for a negative id
IdRejectedDuplicateOnly(document_id) == document_id \in DOMAIN documents_

\* the guard of AddDocument: document_id < 0 or documents_.count(document_id)
IdRejected(document_id) == document_id < 0 \/ document_id \in DOMAIN documents_

\* IndexDocument writing the postings word by word while it validates, so
\* that the words before an invalid one are indexed when it throws
IndexDocumentEager(document_id, document, status, ratings) ==
    LET all == SplitIntoWords(document)
        bad == {i \in 1..Len(all) : ~IsValidWord(all[i])}
        first == CHOOSE i \in bad : \A j \in bad : i <= j
        split == SplitIntoWordsNoStop(document)
    IN
    IF bad # {}
    THEN [err |-> "InvalidText",
          freqs |-> AddPostings(document_id,
                        SelectSeq(SubSeq(all, 1, first - 1), LAMBDA w : ~IsStopWord(w))),
          documents |-> documents_, ids |-> document_ids]
    ELSE [err |-> "none",
          freqs |-> AddPostings(document_id, split.words),
          documents |-> documents_ @@
                        (document_id :> [rating |-> ComputeAverageRating(ratings),
                                         status |-> status]),
          ids |-> Append(document_ids, document_id)]

\* AddDocument past its guard: split and validate the whole text first, then
\* write the postings, the metadata (emplace keeps an existing entry) and the id
IndexDocument(document_id, document, status, ratings) ==
    LET split == SplitIntoWordsNoStop(document) IN
    IF split.err # "none"
    THEN [err |-> split.err, freqs |-> word_to_document_freqs_,
          documents |-> documents_, ids |-> document_ids]
    ELSE [err |-> "none",
          freqs |-> AddPostings(document_id, split.words),
          documents |-> documents_ @@
                        (document_id :> [rating |-> ComputeAverageRating(ratings),
                                         status |-> status]),
          ids |-> Append(document_ids, document_id)]

AddDocument(document_id, document, status, ratings) ==
    LET call == [NoCall EXCEPT !.op = "AddDocument", !.id = document_id, !.text = document,
                               !.ratings = ratings]
        done == IndexDocument(document_id, document, status, ratings)
    IN
    /\ UNCHANGED <<stop_words_, requests_, no_results_requests_, current_time_, history>>
    /\ IF IdRejected(document_id)
       THEN /\ last' = [call EXCEPT !.err = "DuplicateOrInvalidId"]
            /\ UNCHANGED <<word_to_document_freqs_, documents_, document_ids, added>>
       ELSE \/ /\ word_to_document_freqs_' = done.freqs
               /\ documents_' = done.documents
               /\ document_ids' = done.ids
               /\ added' = IF done.err = "none" THEN added + 1 ELSE added
               /\ last' = [call EXCEPT !.err = done.err]
            \* an overflowing addition in ComputeAverageRating is undefined: a
            \* build that traps on it stops the program inside the call, which
            \* never returns and of which no caller sees an effect
            \/ /\ done.err = "none"
               /\ SignedOverflow(ratings, 0)
               /\ UNCHANGED <<word_to_document_freqs_, documents_, document_ids, added>>
               /\ last' = [call EXCEPT !.err = "SignedOverflow"]

\* the predicate overload
FindTopDocuments(raw_query, predict) ==
    /\ \E r \in FindTopOutcomes(raw_query, predict) :
          last' = [NoCall EXCEPT !.op = "FindTopDocuments", !.text = raw_query,
                                 !.pred = predict, !.err = r.err, !.docs = r.docs,
                                 !.calls = r.calls]
    /\ UNCHANGED <<server, log, added, history>>

\* the status overload: its own validity test, then the predicate overload
\* with the predicate doc_status == status
FindTopStatusOutcomes(raw_query, status) ==
    IF ~IsValidWord(raw_query)
    THEN {[err |-> "InvalidText", docs |-> <<>>, calls |-> {}]}
    ELSE FindTopOutcomes(raw_query, status)

FindTopDocumentsStatus(raw_query, status) ==
    /\ \E r \in FindTopStatusOutcomes(raw_query, status) :
          last' = [NoCall EXCEPT !.op = "FindTopDocumentsStatus", !.text = raw_query,
                                 !.pred = status, !.err = r.err, !.docs = r.docs,
                                 !.calls = r.calls]
    /\ UNCHANGED <<server, log, added, history>>

GetDocumentCountCall ==
    /\ last' = [NoCall EXCEPT !.op = "GetDocumentCount", !.value = GetDocumentCount]
    /\ UNCHANGED <<server, log, added, history>>

\* MatchDocument looking the query up with operator[], which inserts it
MatchDocumentInserting(raw_query, document_id) ==
    /\ LET r == MatchOutcome(raw_query, document_id) IN
       last' = [NoCall EXCEPT !.op = "MatchDocument", !.text = raw_query,
                              !.id = document_id, !.err = r.err, !.words = r.words,
                              !.status = r.status]
    /\ word_to_document_freqs_' =
          word_to_document_freqs_ @@ [word \in {raw_query} |-> <<>>]
    /\ UNCHANGED <<stop_words_, documents_, document_ids, log, added, history>>

MatchDocument(raw_query, document_id) ==
    /\ LET r == MatchOutcome(raw_query, document_id) IN
       last' = [NoCall EXCEPT !.op = "MatchDocument", !.text = raw_query,
                              !.id = document_id, !.err = r.err, !.words = r.words,
                              !.status = r.status]
    /\ UNCHANGED <<server, log, added, history>>

\* GetDocumentId counting positions from one
GetDocumentIdFromOne(index) ==
    /\ IF index >= 1 /\ index <= Len(document_ids)
       THEN last' = [NoCall EXCEPT !.op = "GetDocumentId", !.id = index,
                                   !.value = document_ids[index]]
       ELSE last' = [NoCall EXCEPT !.op = "GetDocumentId", !.id = index,
                                   !.err = "IndexOutOfRange"]
    /\ UNCHANGED <<server, log, added, history>>

\* document_ids.at(index): the int index converts to size_t, so a negative
\* one is out of range as well
GetDocumentId(index) ==
    /\ IF index >= 0 /\ index < Len(document_ids)
       THEN last' = [NoCall EXCEPT !.op = "GetDocumentId", !.id = index,
                                   !.value = document_ids[index + 1]]
       ELSE last' = [NoCall EXCEPT !.op = "GetDocumentId", !.id = index,
                                   !.err = "IndexOutOfRange"]
    /\ UNCHANGED <<server, log, added, history>>

Next ==
    \/ \E document_id \in DocIds, d \in Documents :
          AddDocument(document_id, d.text, d.status, d.ratings)
    \/ \E raw_query \in Queries, predict \in Predicates :
          FindTopDocuments(raw_query, predict)
    \/ \E raw_query \in Queries, status \in DocStatuses :
          FindTopDocumentsStatus(raw_query, status)
    \/ GetDocumentCountCall
    \/ \E raw_query \in MatchQueries, document_id \in DocIds :
          MatchDocument(raw_query, document_id)
    \/ \E index \in -1..(MaxId + 1) : GetDocumentId(index)

Spec == Init /\ [][Next]_vars


(***************************************************************************)
(* RequestQueue                                                            *)
(***************************************************************************)
min_in_day_ == 1440

\* Evict with the decrement of the counter forgotten
RECURSIVE EvictKeepsCount(_, _, _)
EvictKeepsCount(requests, no_results, now) ==
    IF requests # <<>> /\ min_in_day_ <= now - Head(requests).timestamp
    THEN EvictKeepsCount(Tail(requests), no_results, now)
    ELSE [requests |-> requests, no_results |-> no_results]

\* Evict with the age test off by one (< for <=)
RECURSIVE EvictLate(_, _, _)
EvictLate(requests, no_results, now) ==
    IF requests # <<>> /\ min_in_day_ < now - Head(requests).timestamp
    THEN EvictLate(Tail(requests),
                   IF 0 = Head(requests).results THEN no_results - 1 ELSE no_results,
                   now)
    ELSE [requests |-> requests, no_results |-> no_results]

\* the eviction loop; timestamps never exceed the clock, so the unsigned
\* difference is the plain one
RECURSIVE Evict(_, _, _)
Evict(requests, no_results, now) ==
    IF requests # <<>> /\ min_in_day_ <= now - Head(requests).timestamp
    THEN Evict(Tail(requests),
               IF 0 = Head(requests).results THEN no_results - 1 ELSE no_results,
               now)
    ELSE [requests |-> requests, no_results |-> no_results]

AddRequest(results_num) ==
    LET now == current_time_ + 1
        kept == Evict(requests_, no_results_requests_, now)
    IN  /\ current_time_' = now
        /\ requests_' = Append(kept.requests, [timestamp |-> now, results |-> results_num])
        /\ no_results_requests_' =
               IF 0 = results_num THEN kept.no_results + 1 ELSE kept.no_results
        /\ history' = Append(history, results_num)

\* Bounds of the request-log specification: the clock stops at MaxTime, and
\* queries without results are issued only in the first BurstLen ticks of
\* each window of min_in_day_ ticks.
MaxTime == 1444
BurstLen == 2

\* Record that logs a failed search as a request without results
RecordFailures(op, raw_query, predict, r) ==
    /\ UNCHANGED <<server, added>>
    /\ current_time_ < MaxTime
    /\ AddRequest(Len(r.docs))
    /\ last' = [NoCall EXCEPT !.op = op, !.text = raw_query, !.pred = predict,
                               !.err = r.err, !.docs = r.docs, !.calls = r.calls]

\* the body shared by the three AddFindRequest overloads: r is what
\* FindTopDocuments produced; a throw leaves before AddRequest is reached
Record(op, raw_query, predict, r) ==
    /\ UNCHANGED <<server, added>>
    /\ IF r.err # "none"
       THEN /\ last' = [NoCall EXCEPT !.op = op, !.text = raw_query, !.pred = predict,
                                      !.err = r.err]
            /\ UNCHANGED <<log, history>>
       ELSE /\ current_time_ < MaxTime
            /\ Len(r.docs) = 0 => current_time_ % min_in_day_ < BurstLen
            /\ AddRequest(Len(r.docs))
            /\ last' = [NoCall EXCEPT !.op = op, !.text = raw_query, !.pred = predict,
                                      !.docs = r.docs, !.calls = r.calls]

AddFindRequestStatus(raw_query, status) ==
    \E r \in FindTopStatusOutcomes(raw_query, status) :
        Record("AddFindRequestStatus", raw_query, status, r)

\* FindTopDocuments(raw_query) uses the default status ACTUAL
AddFindRequest(raw_query) ==
    \E r \in FindTopStatusOutcomes(raw_query, "ACTUAL") :
        Record("AddFindRequest", raw_query, "ACTUAL", r)

AddFindRequestPredicate(raw_query, document_predicate) ==
    \E r \in FindTopOutcomes(raw_query, document_predicate) :
        Record("AddFindRequestPredicate", raw_query, document_predicate, r)

GetNoResultRequests ==
    /\ last' = [NoCall EXCEPT !.op = "GetNoResultRequests", !.value = no_results_requests_]
    /\ UNCHANGED <<server, log, added, history>>

InitLog == Construct(<<>>)

\* "cat" finds the one document, "mouse" finds nothing, "-" is a malformed
\* minus-word and "cat<TAB>dog" holds a control character
NextLog ==
    \/ AddDocument(0, cat \o sp \o dog, "ACTUAL", <<5>>)
    \/ \E raw_query \in {cat, mouse, dash} : AddFindRequestStatus(raw_query, "ACTUAL")
    \/ \E raw_query \in {cat, cat \o tab \o dog} : AddFindRequest(raw_query)
    \/ \E raw_query \in {cat, mouse, dash} : AddFindRequestPredicate(raw_query, "even_id")
    \/ GetNoResultRequests

SpecLog == InitLog /\ [][NextLog]_vars


(***************************************************************************)
(* Ranking specification: a corpus large enough for the result cap         *)
(***************************************************************************)
\* documents get the ids 0, 1, ... up to MaxRankDocs documents; the n-th one
\* is rated n % 3, so that only few documents are equal in every respect
MaxRankDocs == 6
RankTexts == {cat \o sp \o dog, dog \o sp \o mouse}
RankQueries == {cat \o sp \o mouse, dog, mouse \o sp \o dash \o cat}

InitRank == Construct(<<>>)

NextRank ==
    \/ /\ GetDocumentCount < MaxRankDocs
       /\ \E document \in RankTexts :
             AddDocument(GetDocumentCount, document, "ACTUAL", <<GetDocumentCount % 3>>)
    \/ \E raw_query \in RankQueries : FindTopDocuments(raw_query, "rating_positive")
    \/ \E raw_query \in RankQueries : FindTopDocumentsStatus(raw_query, "ACTUAL")

SpecRank == InitRank /\ [][NextRank]_vars


(***************************************************************************)
(* A server that is given documents with every rating vector of up to      *)
(* MaxRatings entries, the extreme values of int among them                *)
(***************************************************************************)
MaxRatings == 3
RatingValues == {INT_MAX, INT_MIN, 1, -7}
RatingSeqs == UNION {[1..n -> RatingValues] : n \in 0..MaxRatings}

InitRating == Construct(<<>>)

NextRating ==
    \E ratings \in RatingSeqs : AddDocument(0, cat, "ACTUAL", ratings)

SpecRating == InitRating /\ [][NextRating]_vars


(***************************************************************************)
(* Properties                                                              *)
(***************************************************************************)
FindOps == {"FindTopDocuments", "FindTopDocumentsStatus"}
DocIdsOf(docs) == {docs[i].id : i \in 1..Len(docs)}
Retained(results) == {i \in 1..Len(requests_) : requests_[i].results = results}

\* C1: the zero-result counter, and what GetNoResultRequests returns, is the
\* number of retained log entries whose result count is exactly 0.
C1_ZeroResultCount ==
    /\ no_results_requests_ = Cardinality(Retained(0))
    /\ last.op = "GetNoResultRequests" => last.value = Cardinality(Retained(0))

\* a zero-result entry has been evicted, entries of both kinds are retained,
\* and the accessor has just been read
C1_Witness ==
    /\ current_time_ > min_in_day_
    /\ history[1] = 0
    /\ Retained(0) # {}
    /\ Retained(1) # {}
    /\ last.op = "GetNoResultRequests"

\* C2: after the n-th recorded call the log holds exactly the entries of the
\* most recent min(n, 1440) calls, in order, so an entry of tick t survives
\* the call at tick t + 1439 and is gone after the call at tick t + 1440, and
\* the zero-result counter counts zero-result calls of those ticks only.
C2_Window ==
    LET n == current_time_
        k == IF n < 1440 THEN n ELSE 1440
    IN  /\ Len(history) = n
        /\ Len(requests_) = k
        /\ \A i \in 1..k : /\ requests_[i].timestamp = n - k + i
                           /\ requests_[i].results = history[n - k + i]
        /\ no_results_requests_ = Cardinality({t \in (n - k + 1)..n : history[t] = 0})

\* the call at tick 1 + 1440 has evicted the zero-result entry of tick 1
C2_Witness ==
    /\ current_time_ = 1441
    /\ history[1] = 0
    /\ Head(requests_).timestamp = 2
    /\ Len(requests_) = 1440

\* C3: the document count, and what GetDocumentCount returns, is the number
\* of AddDocument calls that have succeeded so far.
C3_DocumentCount ==
    /\ GetDocumentCount = added
    /\ last.op = "GetDocumentCount" => last.value = added
    /\ Len(document_ids) = added

\* an addition has succeeded and a later one has failed
C3_Witness ==
    /\ added = 1
    /\ GetDocumentCount = 1
    /\ last.op = "AddDocument"
    /\ last.err = "InvalidText"

\* C4: AddDocument with a negative id or an id already added fails with
\* DuplicateOrInvalidId and leaves postings, metadata and id list unchanged.
C4_RejectedId ==
    [][(last'.op = "AddDocument" /\ (last'.id < 0 \/ last'.id \in DOMAIN documents_))
          => (last'.err = "DuplicateOrInvalidId"
              /\ UNCHANGED <<word_to_document_freqs_, documents_, document_ids>>)]_vars

\* an id already in use was offered again, here with a text that is itself invalid
C4_Witness ==
    /\ last.op = "AddDocument"
    /\ last.err = "DuplicateOrInvalidId"
    /\ last.id \in DOMAIN documents_
    /\ ~IsValidWord(last.text)

\* C5: an AddDocument that fails with InvalidText has added nothing: the
\* engine state is the state before the call.
C5_NoPartialIngestion ==
    [][(last'.op = "AddDocument" /\ last'.err = "InvalidText")
          => UNCHANGED <<stop_words_, word_to_document_freqs_, documents_, document_ids>>]_vars

\* the text failed on its second token, after a valid first token that the
\* index does not hold yet
C5_Witness ==
    /\ last.op = "AddDocument"
    /\ last.err = "InvalidText"
    /\ last.text = cat \o sp \o soh \o dog
    /\ cat \notin DOMAIN word_to_document_freqs_

\* the candidate rule of C6, stated on the index
Candidates(query, predict) ==
    {id \in DOMAIN documents_ :
        /\ \E word \in query.plus_words : InDocument(word, id)
        /\ DocPredicate(predict, id, documents_[id].status, documents_[id].rating)
        /\ ~\E word \in query.minus_words : InDocument(word, id)}

\* C6: the documents FindAllDocuments yields are exactly those holding a
\* plus-word, accepted by the predicate and holding no minus-word; with an
\* empty plus set the result is empty; the result holds no other document.
C6_Candidates ==
    (last.op \in FindOps /\ last.err = "none") =>
        LET query == ParseQuery(last.text) IN
        /\ DocIdsOf(FindAllDocuments(query, last.pred).docs) = Candidates(query, last.pred)
        /\ DocIdsOf(last.docs) \subseteq Candidates(query, last.pred)
        /\ Cardinality(Candidates(query, last.pred)) <= MAX_RESULT_DOCUMENT_COUNT
              => DocIdsOf(last.docs) = Candidates(query, last.pred)
        /\ query.plus_words = {} => last.docs = <<>>

\* a minus-word has removed a document that holds a plus-word and that the
\* predicate accepts, while another document is returned
C6_Witness ==
    /\ last.op \in FindOps
    /\ last.err = "none"
    /\ last.text = cat \o sp \o dash \o dog
    /\ Len(last.docs) = 1
    /\ \E id \in DOMAIN documents_ :
          /\ InDocument(cat, id) /\ InDocument(dog, id)
          /\ DocPredicate(last.pred, id, documents_[id].status, documents_[id].rating)

\* a ranks strictly above b: higher relevance, or equal relevance and higher rating
Outranks(a, b) ==
    \/ a.relevance.num * b.relevance.den > b.relevance.num * a.relevance.den
    \/ /\ a.relevance.num * b.relevance.den = b.relevance.num * a.relevance.den
       /\ a.rating > b.rating

\* C7: the result has min(5, n) of the n candidates, in descending order of
\* relevance and, at equal relevance, of rating; no candidate left out
\* outranks a returned one.
C7_TopFive ==
    (last.op \in FindOps /\ last.err = "none") =>
        LET all == FindAllDocuments(ParseQuery(last.text), last.pred).docs
            candidates == {all[i] : i \in 1..Len(all)}
            returned == {last.docs[i] : i \in 1..Len(last.docs)}
            n == Cardinality(candidates)
        IN  /\ Len(last.docs) <= 5
            /\ Len(last.docs) = IF n < 5 THEN n ELSE 5
            /\ Cardinality(returned) = Len(last.docs)
            /\ returned \subseteq candidates
            /\ \A i, j \in 1..Len(last.docs) : i < j => ~Outranks(last.docs[j], last.docs[i])
            /\ \A c \in candidates \ returned : \A d \in returned : ~Outranks(c, d)

\* more than five candidates; the five returned differ in relevance and
\* hold a pair of equal relevance placed by rating
C7_Witness ==
    /\ last.op \in FindOps
    /\ last.err = "none"
    /\ Len(FindAllDocuments(ParseQuery(last.text), last.pred).docs) > 5
    /\ Len(last.docs) = 5
    /\ Outranks(last.docs[1], last.docs[5])
    /\ \E i \in 1..4 : /\ RatEq(last.docs[i].relevance, last.docs[i + 1].relevance)
                       /\ last.docs[i].rating > last.docs[i + 1].rating
    /\ \E i \in 1..4 : RatLess(last.docs[i + 1].relevance, last.docs[i].relevance)

\* exactly the documents 0: "cat dog" and 1: "cat cat mouse", both ACTUAL
\* and rated [5], no stop words, and the query "cat" has just been answered
ExampleAnswered ==
    /\ stop_words_ = {}
    /\ DOMAIN documents_ = {0, 1}
    /\ \A id \in {0, 1} : documents_[id] = [rating |-> 5, status |-> "ACTUAL"]
    /\ DOMAIN word_to_document_freqs_ = {cat, dog, mouse}
    /\ word_to_document_freqs_[cat] = (0 :> [num |-> 1, den |-> 2]) @@ (1 :> [num |-> 2, den |-> 3])
    /\ DOMAIN word_to_document_freqs_[dog] = {0}
    /\ DOMAIN word_to_document_freqs_[mouse] = {1}
    /\ last.op \in FindOps
    /\ last.text = cat
    /\ last.pred = "ACTUAL"

\* C8 as claimed: both documents are returned, document 1 first with a
\* strictly greater relevance than document 0.
C8_Claimed ==
    ExampleAnswered =>
        /\ last.err = "none"
        /\ DocIdsOf(last.docs) = {0, 1}
        /\ last.docs[1].id = 1
        /\ RatLess(last.docs[2].relevance, last.docs[1].relevance)

\* C8 amended: both documents are returned with the same relevance 0 (the
\* idf of "cat" is ln(2/2) = 0) and the same rating, so neither outranks
\* the other.
C8_EqualRelevance ==
    ExampleAnswered =>
        /\ last.err = "none"
        /\ Len(last.docs) = 2
        /\ DocIdsOf(last.docs) = {0, 1}
        /\ \A i \in 1..2 : last.docs[i].relevance.num = 0 /\ last.docs[i].rating = 5
        /\ ~Outranks(last.docs[1], last.docs[2])
        /\ ~Outranks(last.docs[2], last.docs[1])

\* the example, answered with document 0 first
C8_Witness ==
    /\ ExampleAnswered
    /\ Len(last.docs) = 2
    /\ last.docs[1].id = 0

\* C9: for a valid query and an indexed document, MatchDocument returns the
\* document's status with no words if a minus-word occurs in the document,
\* and otherwise with exactly the plus-words that occur in it, each once.
C9_MatchDocument ==
    LET query == ParseQuery(last.text) IN
    (last.op = "MatchDocument" /\ IsValidWord(last.text) /\ query.err = "none"
        /\ last.id \in DOMAIN documents_) =>
        /\ last.err = "none"
        /\ last.status = documents_[last.id].status
        /\ IF \E word \in query.minus_words : InDocument(word, last.id)
           THEN last.words = <<>>
           ELSE /\ {last.words[i] : i \in 1..Len(last.words)}
                      = {word \in query.plus_words : InDocument(word, last.id)}
                /\ Len(last.words)
                      = Cardinality({word \in query.plus_words : InDocument(word, last.id)})

\* a minus-word of the query occurs in a document that also holds a plus-word
C9_Witness ==
    /\ last.op = "MatchDocument"
    /\ last.err = "none"
    /\ last.text = cat \o sp \o dash \o dog
    /\ InDocument(cat, last.id)
    /\ InDocument(dog, last.id)
    /\ last.words = <<>>

\* a lone "-" or a token that starts with "--"
Malformed(text) ==
    \E i \in 1..Len(SplitIntoWords(text)) :
        LET token == SplitIntoWords(text)[i] IN
        token[1] = 45 /\ (Len(token) = 1 \/ token[2] = 45)

\* C10 as claimed: a query with a malformed minus-token fails with
\* InvalidMinusWord, without a result and without a call of the predicate.
C10_Claimed ==
    (last.op \in FindOps /\ Malformed(last.text)) =>
        /\ last.err = "InvalidMinusWord"
        /\ last.docs = <<>>
        /\ last.calls = {}

\* C10 amended: such a query fails without a result and without a call of
\* the predicate; the failure is InvalidMinusWord unless the query also
\* holds a control character, and then it is InvalidText.
C10_MalformedFails ==
    (last.op \in FindOps /\ Malformed(last.text)) =>
        /\ last.err = IF IsValidWord(last.text) THEN "InvalidMinusWord" ELSE "InvalidText"
        /\ last.docs = <<>>
        /\ last.calls = {}

\* "cat --dog" was rejected although a document holds the plus-word before it
C10_Witness ==
    /\ last.op \in FindOps
    /\ last.text = cat \o sp \o dash \o dash \o dog
    /\ last.err = "InvalidMinusWord"
    /\ \E id \in DOMAIN documents_ : InDocument(cat, id)

\* C11: a control character anywhere in the text makes the call fail with
\* InvalidText, for the body given to AddDocument (with an id it accepts)
\* as for the query given to FindTopDocuments or MatchDocument.
C11_Claimed ==
    [][/\ (last'.op = "AddDocument" /\ ~IdRejected(last'.id) /\ ~IsValidWord(last'.text))
            => last'.err = "InvalidText"
       /\ (last'.op \in FindOps \cup {"MatchDocument"} /\ ~IsValidWord(last'.text))
            => last'.err = "InvalidText"]_vars

\* C12: every document id in a posting list is a key of the metadata table
\* and an element of the id list, and no stop word is a key of the posting map.
C12_PostingsKnown ==
    /\ \A word \in DOMAIN word_to_document_freqs_ :
          /\ word \notin stop_words_
          /\ \A id \in DOMAIN word_to_document_freqs_[word] :
                /\ id \in DOMAIN documents_
                /\ \E i \in 1..Len(document_ids) : document_ids[i] = id

\* a document whose text holds a stop word is indexed, after failed additions
C12_Witness ==
    /\ stop_words_ = {in}
    /\ \E id \in DOMAIN documents_ : documents_[id].status = "BANNED" /\ InDocument(dog, id)
    /\ last.op = "AddDocument"
    /\ last.err = "InvalidText"

\* C13: the id list grows by exactly the id of each successful AddDocument
\* and by nothing else, so it is as long as the number of successful
\* additions, and GetDocumentId(index) returns its
\* element number index + 1 when 0 <= index < GetDocumentCount and fails with
\* IndexOutOfRange for every other index.
C13_DocumentIdAt ==
    [][/\ document_ids' = IF last'.op = "AddDocument" /\ last'.err = "none"
                          THEN Append(document_ids, last'.id)
                          ELSE document_ids
       /\ Len(document_ids') = added'
       /\ last'.op = "GetDocumentId" =>
             IF last'.id >= 0 /\ last'.id < GetDocumentCount
             THEN last'.err = "none" /\ last'.value = document_ids[last'.id + 1]
             ELSE last'.err = "IndexOutOfRange"]_vars

\* the second of two documents added in the order 1, 0 is looked up
C13_Witness ==
    /\ document_ids = <<1, 0>>
    /\ last.op = "GetDocumentId"
    /\ last.id = 1
    /\ last.value = 0

\* C14: FindTopDocuments, MatchDocument, GetDocumentCount and GetDocumentId
\* leave the postings, the metadata table and the id list unchanged whether
\* they return or fail, and no step changes the rating or the status of a
\* document that is already stored.
C14_ReadOnly ==
    [][/\ last'.op \in FindOps \cup {"MatchDocument", "GetDocumentCount", "GetDocumentId"}
            => UNCHANGED <<word_to_document_freqs_, documents_, document_ids>>
       /\ \A id \in DOMAIN documents_ :
             /\ id \in DOMAIN documents_'
             /\ documents_'[id] = documents_[id]]_vars

\* a failed MatchDocument on a server that holds two documents
C14_Witness ==
    /\ GetDocumentCount = 2
    /\ last.op = "MatchDocument"
    /\ last.err # "none"

\* the exact sum of the ratings, computed in two halves of 16 bits so that
\* no intermediate value leaves the range of the checker's integers
RECURSIVE SumHigh(_)
SumHigh(s) == IF s = <<>> THEN 0 ELSE (s[1] \div 65536) + SumHigh(Tail(s))
RECURSIVE SumLow(_)
SumLow(s) == IF s = <<>> THEN 0 ELSE (s[1] % 65536) + SumLow(Tail(s))
TotalHigh(s) == SumHigh(s) + (SumLow(s) \div 65536)
TotalFits(s) == TotalHigh(s) >= -32768 /\ TotalHigh(s) <= 32767
Total(s) == TotalHigh(s) * 65536 + (SumLow(s) % 65536)

\* the quotient of total by count, truncated toward zero
TruncatedMean(total, count) ==
    IF total >= 0
    THEN total \div count
    ELSE LET m == -(total + 1)
         IN  (-(m \div count)) - (IF m % count = count - 1 THEN 1 ELSE 0)

\* an AddDocument call that got past the id test and the text validation
Ingests(call) ==
    /\ call.op = "AddDocument"
    /\ call.err \notin {"DuplicateOrInvalidId", "InvalidText"}

C15_WithoutOverflow ==
    [][/\ (Ingests(last') /\ ~SignedOverflow(last'.ratings, 0))
            => TotalFits(last'.ratings) /\ last'.err = "none"
       /\ (Ingests(last') /\ TotalFits(last'.ratings) /\ last'.err = "none")
            => documents_'[last'.id].rating =
                  IF last'.ratings = <<>> THEN 0
                  ELSE TruncatedMean(Total(last'.ratings), Len(last'.ratings))]_vars

LogOps == {"AddFindRequestStatus", "AddFindRequest", "AddFindRequestPredicate"}

\* C16: an AddFindRequest call whose search fails leaves the clock, the
\* entries and the zero-result counter as they were; one whose search returns
\* advances the clock by one and appends the entry of the new tick; and the
\* clock advances in no other step.
C16_FailedQueryNotLogged ==
    [][/\ (last'.op \in LogOps /\ last'.err # "none")
            => UNCHANGED <<requests_, no_results_requests_, current_time_>>
       /\ (last'.op \in LogOps /\ last'.err = "none")
            => /\ current_time_' = current_time_ + 1
               /\ requests_' # <<>>
               /\ requests_'[Len(requests_')] =
                     [timestamp |-> current_time_', results |-> Len(last'.docs)]
       /\ current_time_' # current_time_
            => last'.op \in LogOps /\ last'.err = "none"]_vars

\* a query has just failed at a moment when a recorded call would have
\* evicted the zero-result entry of tick 1
C16_Witness ==
    /\ current_time_ = min_in_day_
    /\ Head(requests_) = [timestamp |-> 1, results |-> 0]
    /\ no_results_requests_ > 0
    /\ last.op \in LogOps
    /\ last.err # "none"

====
